---- MODULE Spec2Model ----
(***************************************************************************)
(* bexio Manual Entry Poster (src/app.py): the OAuth session gate, the     *)
(* token store kept in st.session_state.oauth, the account and currency    *)
(* mappings, and the submission handler with its 401 / 429 handling.       *)
(*                                                                         *)
(* A Python str is a sequence of one-character strings; a dict is a        *)
(* function whose DOMAIN is its key set, so an absent key is a key that is *)
(* not in the DOMAIN.                                                      *)
(***************************************************************************)
EXTENDS Integers, Sequences, FiniteSets, TLC

\* ------------------------------------------------------------------ state

VARIABLES
    oauth,       \* st.session_state.oauth
    acct_map,    \* st.session_state.acct_map
    curr_map,    \* st.session_state.curr_map
    query_code,  \* st.query_params.get("code"); 0 when there is none
    now,         \* time.time()
    run,         \* the script runs of the session: position, locals, and the
                 \* session values as they were when the form was submitted
    nextTok,     \* identity provider: the next TokenSet it issues
    nextCode,    \* identity provider: the next authorization code it hands out
    exchanged,   \* authorization codes already sent to the token endpoint
    issuedAt,    \* clock reading at which the stored TokenSet was issued
    probe        \* a function applied on its own: its inputs and its result

\* ------------------------------------------------------------------ bounds

\* Latest clock reading the model follows.
MaxTime == 2
\* Number of TokenSets the identity provider issues.
MaxTokens == 2
\* Number of authorization codes the identity provider hands out.
MaxCodes == 1

\* ------------------------------------------------------------- dict helpers

EmptyDict == [k \in {} |-> 0]

\* dict.get(k, default)
Get(d, k, default) == IF k \in DOMAIN d THEN d[k] ELSE default

\* dict.update(new): keys of new override, the other keys stay
DictUpdate(d, new) ==
    [k \in (DOMAIN d) \cup (DOMAIN new) |-> IF k \in DOMAIN new THEN new[k] ELSE d[k]]

\* ----------------------------------------------------------- str helpers

Digits == <<"0", "1", "2", "3", "4", "5", "6", "7", "8", "9">>
LowerCase == <<"a", "b", "c", "d", "e", "f", "g", "h", "i", "j", "k", "l", "m",
               "n", "o", "p", "q", "r", "s", "t", "u", "v", "w", "x", "y", "z">>
UpperCase == <<"A", "B", "C", "D", "E", "F", "G", "H", "I", "J", "K", "L", "M",
               "N", "O", "P", "Q", "R", "S", "T", "U", "V", "W", "X", "Y", "Z">>

IsDigit(c) == \E i \in 1..Len(Digits) : Digits[i] = c
DigitVal(c) == (CHOOSE i \in 1..Len(Digits) : Digits[i] = c) - 1
IsSpace(c) == c \in {" ", "\t", "\n"}

\* str.upper(), character by character
UpperChar(c) ==
    IF \E i \in 1..Len(LowerCase) : LowerCase[i] = c
    THEN UpperCase[CHOOSE i \in 1..Len(LowerCase) : LowerCase[i] = c]
    ELSE c
Upper(s) == [i \in 1..Len(s) |-> UpperChar(s[i])]

RECURSIVE LStrip(_)
LStrip(s) == IF s # <<>> /\ IsSpace(Head(s)) THEN LStrip(Tail(s)) ELSE s
RECURSIVE RStrip(_)
RStrip(s) ==
    IF s # <<>> /\ IsSpace(s[Len(s)]) THEN RStrip(SubSeq(s, 1, Len(s) - 1)) ELSE s
\* str.strip()
Strip(s) == RStrip(LStrip(s))

\* str.startswith(prefix)
StartsWith(s, prefix) ==
    Len(s) >= Len(prefix) /\ SubSeq(s, 1, Len(prefix)) = prefix

\* str.replace(old, new) for one-character old and new
ReplaceChar(s, old, new) == [i \in 1..Len(s) |-> IF s[i] = old THEN new ELSE s[i]]

\* ------------------------------------------------------------------ int()

RECURSIVE DigitsValue(_)
DigitsValue(s) ==
    IF s = <<>> THEN 0
    ELSE 10 * DigitsValue(SubSeq(s, 1, Len(s) - 1)) + DigitVal(s[Len(s)])

AllDigits(s) == s # <<>> /\ \A i \in 1..Len(s) : IsDigit(s[i])

\* The part of an int() literal after the surrounding whitespace is dropped:
\* an optional sign, then decimal digits.
Unsigned(s) == IF s # <<>> /\ Head(s) \in {"+", "-"} THEN Tail(s) ELSE s

\* int(s) raises ValueError
IntRaises(s) == ~AllDigits(Unsigned(Strip(s)))
\* int(s) when it does not raise
IntOf(s) ==
    LET t == Strip(s)
    IN  IF t # <<>> /\ Head(t) = "-" THEN 0 - DigitsValue(Unsigned(t))
        ELSE DigitsValue(Unsigned(t))

\* ----------------------------------------------------------- _parse_mapping

\* str.splitlines() for the line boundary "\n"
FirstNewline(t) ==
    IF \E i \in 1..Len(t) : t[i] = "\n"
    THEN CHOOSE i \in 1..Len(t) : t[i] = "\n" /\ \A j \in 1..(i - 1) : t[j] # "\n"
    ELSE 0
RECURSIVE SplitLines(_)
SplitLines(t) ==
    IF t = <<>> THEN <<>>
    ELSE LET i == FirstNewline(t)
         IN  IF i = 0 THEN <<t>>
             ELSE <<SubSeq(t, 1, i - 1)>> \o SplitLines(SubSeq(t, i + 1, Len(t)))

\* A character _SPLIT_RE consumes: one of : = , ; or whitespace.
IsSep(c) == c \in {":", "=", ",", ";"} \/ IsSpace(c)

\* Length of the longest prefix of s without a separator.
RECURSIVE RunLen(_)
RunLen(s) == IF s = <<>> \/ IsSep(Head(s)) THEN 0 ELSE 1 + RunLen(Tail(s))

\* [p for p in _SPLIT_RE.split(s) if p != ""]: every separator character is
\* consumed by a match of \s*[:=,;\s]\s*, and the empty pieces between
\* adjacent matches are dropped, which leaves the maximal separator-free runs.
RECURSIVE SplitParts(_)
SplitParts(s) ==
    IF s = <<>> THEN <<>>
    ELSE IF IsSep(Head(s)) THEN SplitParts(Tail(s))
    ELSE LET n == RunLen(s)
         IN  <<SubSeq(s, 1, n)>> \o SplitParts(SubSeq(s, n + 1, Len(s)))

IsComment(s) == StartsWith(s, <<"#">>) \/ StartsWith(s, <<"/", "/">>)

\* A loop body that skips a line it cannot split instead of reporting it.
ParseLineDropping(acc, i, line, upper_keys) ==
    LET s == Strip(line)
        parts == SplitParts(s)
    IN  IF s = <<>> \/ IsComment(s) \/ Len(parts) # 2 THEN acc
        ELSE LET k == IF upper_keys THEN Upper(parts[1]) ELSE parts[1]
             IN  [acc EXCEPT !.mapping = DictUpdate(@, [x \in {k} |-> parts[2]])]

\* The loop body of _parse_mapping for line number i, on the accumulator
\* acc = [mapping, bad].
ParseLine(acc, i, line, upper_keys) ==
    LET s == Strip(line)
        parts == SplitParts(s)
    IN  IF s = <<>> \/ IsComment(s) THEN acc
        ELSE IF Len(parts) # 2
        THEN [acc EXCEPT !.bad = Append(@, <<i, line>>)]
        ELSE LET k0 == Strip(parts[1])
                 v  == Strip(parts[2])
                 k  == IF upper_keys THEN Upper(k0) ELSE k0
             IN  IF k = <<>> \/ v = <<>>
                 THEN [acc EXCEPT !.bad = Append(@, <<i, line>>)]
                 ELSE [acc EXCEPT !.mapping = DictUpdate(@, [x \in {k} |-> v])]

RECURSIVE ParseFrom(_, _, _, _)
ParseFrom(lines, i, upper_keys, acc) ==
    IF i > Len(lines) THEN acc
    ELSE ParseFrom(lines, i + 1, upper_keys, ParseLine(acc, i, lines[i], upper_keys))

\* _parse_mapping(text, upper_keys) -> (mapping, bad)
ParseMapping(text, upper_keys) ==
    ParseFrom(SplitLines(text), 1, upper_keys, [mapping |-> EmptyDict, bad |-> <<>>])

\* ------------------------------------------------------------- resolvers

Resolved(v) == [ok |-> TRUE, val |-> v, err |-> "none"]
ValueError(msg) == [ok |-> FALSE, val |-> 0, err |-> msg]

\* int(x), then the "> 0" test of the raw-id branch
RawId(s, msg) ==
    IF IntRaises(s) THEN ValueError("invalid literal")
    ELSE IF IntOf(s) <= 0 THEN ValueError(msg)
    ELSE Resolved(IntOf(s))

\* int(mapping[s]) of the mapped branch
MappedId(v) == IF IntRaises(v) THEN ValueError("invalid literal") ELSE Resolved(IntOf(v))

\* A lookup of the value as typed, without the strip() of line 114.
resolve_account_id_verbatim(user_value, amap) ==
    IF user_value \in DOMAIN amap THEN MappedId(amap[user_value])
    ELSE RawId(user_value, "Account-ID muss > 0 sein.")

resolve_account_id(user_value, amap) ==
    LET s == Strip(user_value)
    IN  IF s \in DOMAIN amap THEN MappedId(amap[s])
        ELSE RawId(s, "Account-ID muss > 0 sein.")

\* A currency lookup that folds no case, like the account lookup.
resolve_currency_id_verbatim(user_value, cmap) ==
    LET s == Strip(user_value)
    IN  IF s \in DOMAIN cmap THEN MappedId(cmap[s])
        ELSE RawId(s, "currency_id muss > 0 sein.")

resolve_currency_id(user_value, cmap) ==
    LET s == Upper(Strip(user_value))
    IN  IF s \in DOMAIN cmap THEN MappedId(cmap[s])
        ELSE RawId(s, "currency_id muss > 0 sein.")

\* -------------------------------------------------------- normalize_iso_date

\* n written with w decimal digits, zero padded (date.isoformat())
RECURSIVE Pad(_, _)
Pad(n, w) == IF w = 0 THEN <<>> ELSE Pad(n \div 10, w - 1) \o <<Digits[(n % 10) + 1]>>

IsoFormat(d) == Pad(d.y, 4) \o <<"-">> \o Pad(d.m, 2) \o <<"-">> \o Pad(d.d, 2)

\* re.match(r"^\d{4}-\d{2}-\d{2}$", s)
MatchesIso(s) ==
    /\ Len(s) = 10
    /\ \A i \in {1, 2, 3, 4, 6, 7, 9, 10} : IsDigit(s[i])
    /\ s[5] = "-" /\ s[8] = "-"

\* A form value for the date: a datetime.date (isdate) or a string s.
DateObj(y, m, d) == [isdate |-> TRUE, y |-> y, m |-> m, d |-> d, s |-> <<>>]
DateStr(s) == [isdate |-> FALSE, y |-> 0, m |-> 0, d |-> 0, s |-> s]

normalize_iso_date(d) ==
    IF d.isdate THEN [ok |-> TRUE, val |-> IsoFormat(d), err |-> "none"]
    ELSE LET s == ReplaceChar(ReplaceChar(Strip(d.s), "/", "-"), ".", "-")
         IN  IF ~MatchesIso(s) THEN [ok |-> FALSE, val |-> <<>>, err |-> "Ungueltiges Datum"]
             ELSE [ok |-> TRUE, val |-> s, err |-> "none"]

\* ------------------------------------------------------------ token store

\* Safety margin subtracted from the declared lifetime (save_tokens).
Margin == 30
\* Lifetime assumed when the token response declares none (save_tokens).
DefaultLifetime == 3600

\* save_tokens written as an update of the stored dict: keys the response
\* lacks survive from the previous TokenSet.
save_tokens_merging(tokens, t) ==
    DictUpdate(oauth,
               DictUpdate(tokens,
                          [k \in {"expires_at"} |->
                               t + Get(tokens, "expires_in", DefaultLifetime) - Margin]))

\* save_tokens that sets expires_at only when the store holds none yet.
save_tokens_stale_expiry(tokens, t) ==
    DictUpdate(tokens,
               [k \in {"expires_at"} |->
                    Get(oauth, "expires_at",
                        t + Get(tokens, "expires_in", DefaultLifetime) - Margin)])

\* save_tokens(tokens) at clock reading t: the dict with expires_at added,
\* which then replaces st.session_state.oauth as a whole.
save_tokens(tokens, t) ==
    DictUpdate(tokens,
               [k \in {"expires_at"} |->
                    t + Get(tokens, "expires_in", DefaultLifetime) - Margin])

\* need_login with the comparison time.time() >= expires_at
need_login_at_expiry(o, t) == o = EmptyDict \/ t >= Get(o, "expires_at", 0)

\* need_login() on the stored dict o at clock reading t
need_login(o, t) == o = EmptyDict \/ t > Get(o, "expires_at", 0)

\* not st.session_state.oauth.get("refresh_token")
NoRefreshToken(o) == Get(o, "refresh_token", 0) = 0

\* ------------------------------------------------------------ environment

\* No HTTP response arrived within the timeout (requests raises Timeout).
NoResponse == 0

\* Response.raise_for_status() raises HTTPError
RaisesForStatus(status) == status >= 400 /\ status < 600

\* Lifetimes the identity provider declares.
Lifetimes == {Margin + 1}

\* JSON bodies of a successful token response issuing access token n: with or
\* without a refresh token, with or without a declared lifetime.
TokenResponses(n) ==
    {[access_token |-> n, refresh_token |-> n, expires_in |-> l] : l \in Lifetimes}
    \cup {[access_token |-> n, expires_in |-> l] : l \in Lifetimes}
    \cup {[access_token |-> n, refresh_token |-> n]}

TokenStatuses == {200, 400, NoResponse}
RefStatuses == {200, 500, NoResponse}
CreateStatuses == {201, 400, 401, 429, NoResponse}

\* rr.json() of a successful next_ref_nr response: the field present, empty
\* or missing.
RefBodies == {[next_ref_nr |-> <<"N", "1">>], [next_ref_nr |-> <<>>], EmptyDict}

\* What the user types or pastes.
AcctTexts ==
    { <<"1", "0", "=", "7", "\n", "#", "c", "\n", "\n", "a", " ", "b", " ", "c">>,
      <<"1", "0", " ", "-", "5">> }
CurrTexts ==
    { <<"c", "h", "f", "=", "1">>,
      <<"C", "H", "F", ":", "2", "\n", "x">> }
AccountInputs == { <<"1", "0">>, <<"a", "b">> }
CurrencyInputs == { <<"c", "h", "f">>, <<"1">> }
DateInputs == { DateObj(2024, 1, 31),
                DateStr(<<"2", "0", "2", "4", "/", "0", "1", "/", "3", "1">>),
                DateStr(<<"3", "1", "-", "0", "1", "-", "2", "0", "2", "4">>) }
\* The reference field: blank (a space, which the strip() of line 228 turns
\* into the empty default) or an explicit number.
ReferenceInputs == { <<" ">>, <<"R", "7">> }

\* ------------------------------------------------------------ session runs

vars == <<oauth, acct_map, curr_map, query_code, now, run, nextTok, nextCode,
          exchanged, issuedAt, probe>>

world == <<nextTok, nextCode, exchanged, issuedAt, probe>>

\* No function has been applied on its own: the value of probe in a session.
NoProbe == [fn |-> "none"]

NoOutcome == [kind |-> "none", status |-> 0, msg |-> "none"]
Outcome(kind, status) == [kind |-> kind, status |-> status, msg |-> "none"]

\* Line 272: the error shown for an HTTPError carries e.response.status_code
\* and e.response.text of the response that raised it.
Rejected(status, text) == [kind |-> "HTTPError", status |-> status, msg |-> text]

\* r.text of a response: each response of a submission has a text of its own.
ResponseText ==
    [next_ref |-> "text of the next_ref_nr response",
     token    |-> "text of the token response",
     post1    |-> "text of the first create-entry response",
     post2    |-> "text of the second create-entry response"]

\* A script run that has not started.
IdleRun ==
    [pc |-> "idle", event |-> "none", ret |-> "none", sentRT |-> 0,
     trace |-> <<>>, payload |-> EmptyDict, outcome |-> NoOutcome,
     oauth0 |-> EmptyDict, amap0 |-> EmptyDict, cmap0 |-> EmptyDict,
     use_next_ref |-> FALSE, reference_nr |-> <<>>,
     fetched |-> FALSE, ref_json |-> EmptyDict]

\* One request or call, as the run's trace records it; the trace of a
\* submission starts when the form is submitted.
Ev(op, st, tok) == [op |-> op, st |-> st, tok |-> tok]
Log(r, op, st, tok) == Append(r.trace, Ev(op, st, tok))

Events == {"load", "acct", "curr", "submit"}

\* The script runs a session can have under way.
Procs == {1, 2}

\* A script run the session never starts.
OffRun == [IdleRun EXCEPT !.pc = "off"]

\* A fresh session: lines 32-37 initialise the three session values; the runs
\* in `runners` can be started.
FreshSession(runners) ==
    /\ oauth = EmptyDict
    /\ acct_map = EmptyDict
    /\ curr_map = EmptyDict
    /\ run = [p \in Procs |-> IF p \in runners THEN IdleRun ELSE OffRun]

Init ==
    /\ FreshSession({1})
    /\ query_code = 0
    /\ now = 0
    /\ nextTok = 1
    /\ nextCode = 1
    /\ exchanged = {}
    /\ issuedAt = 0
    /\ probe = NoProbe

\* A session after its login (the code exchange stored the first TokenSet)
\* in which two script runs have both reached the submission handler,
\* line 221, with submitted true.
InitConc ==
    /\ \E resp \in TokenResponses(1) : oauth = save_tokens(resp, 0)
    /\ acct_map = EmptyDict
    /\ curr_map = EmptyDict
    /\ run = [p \in Procs |-> [IdleRun EXCEPT !.pc = "ui", !.event = "submit"]]
    /\ query_code = 0
    /\ now = 0
    /\ nextTok = 2
    /\ nextCode = 2
    /\ exchanged = {1}
    /\ issuedAt = 0
    /\ probe = NoProbe

SetRun(p, r) == run' = [run EXCEPT ![p] = r]

AllIdle == \A p \in Procs : run[p].pc \in {"idle", "off"}

\* ------------------------------------------------------------ the world

\* The clock advances.
Tick ==
    /\ now < MaxTime
    /\ now' = now + 1
    /\ UNCHANGED <<oauth, acct_map, curr_map, query_code, run, world>>

\* The browser loads the page: a new session, with the authorization code of
\* the identity provider's redirect in the query string, or without one.
PageLoad ==
    /\ AllIdle
    /\ oauth' = EmptyDict
    /\ acct_map' = EmptyDict
    /\ curr_map' = EmptyDict
    /\ run' = [p \in Procs |-> IF run[p].pc = "off" THEN OffRun ELSE IdleRun]
    /\ \/ /\ nextCode <= MaxCodes
          /\ query_code' = nextCode
          /\ nextCode' = nextCode + 1
       \/ /\ query_code' = 0
          /\ UNCHANGED nextCode
    /\ issuedAt' = 0
    /\ UNCHANGED <<now, nextTok, exchanged, probe>>

\* ------------------------------------------------------------ script run

\* A rerun starts: the page was loaded, or a widget was used.
StartRun(p) ==
    /\ run[p].pc = "idle"
    /\ \E e \in Events :
         SetRun(p, [IdleRun EXCEPT !.pc = "callback", !.event = e])
    /\ UNCHANGED <<oauth, acct_map, curr_map, query_code, now, world>>

\* The store after save_tokens(resp) of a token response.
Stored(resp) ==
    /\ oauth' = save_tokens(resp, now)
    /\ issuedAt' = now
    /\ nextTok' = nextTok + 1

\* handle_callback(), line 155: outside any try, so an exception ends the run.
HandleCallback(p) ==
    /\ run[p].pc = "callback"
    /\ IF query_code = 0
       THEN /\ SetRun(p, [run[p] EXCEPT !.pc = "gate"])
            /\ UNCHANGED <<oauth, query_code, world>>
       ELSE /\ exchanged' = exchanged \cup {query_code}
            /\ UNCHANGED <<nextCode, probe>>
            /\ \E st \in TokenStatuses :
                 IF st = NoResponse \/ RaisesForStatus(st)
                 THEN /\ SetRun(p, [run[p] EXCEPT
                               !.pc = "idle",
                               !.trace = Log(run[p], "token_code", st, query_code),
                               !.outcome = Outcome("Crashed", st)])
                      /\ UNCHANGED <<oauth, query_code, nextTok, issuedAt>>
                 ELSE /\ nextTok <= MaxTokens
                      /\ \E resp \in TokenResponses(nextTok) : Stored(resp)
                      /\ query_code' = 0
                      /\ SetRun(p, [run[p] EXCEPT
                               !.pc = "gate",
                               !.trace = Log(run[p], "token_code", st, query_code)])
    /\ UNCHANGED <<acct_map, curr_map, now>>

\* Lines 156-159: the login gate.
Gate(p) ==
    /\ run[p].pc = "gate"
    /\ IF need_login(oauth, now)
       THEN SetRun(p, [run[p] EXCEPT !.pc = "idle",
                                     !.trace = Log(run[p], "login_link", 0, 0),
                                     !.outcome = Outcome("LoginRequired", 0)])
       ELSE SetRun(p, [run[p] EXCEPT !.pc = "renew"])
    /\ UNCHANGED <<oauth, acct_map, curr_map, query_code, now, world>>

\* Lines 161-163: renew the session when the clock has passed expires_at.
Renew(p) ==
    /\ run[p].pc = "renew"
    /\ IF now > Get(oauth, "expires_at", 0)
       THEN SetRun(p, [run[p] EXCEPT !.pc = "refresh", !.ret = "ui"])
       ELSE SetRun(p, [run[p] EXCEPT !.pc = "ui"])
    /\ UNCHANGED <<oauth, acct_map, curr_map, query_code, now, world>>

\* refresh_access_token(), lines 50-59: return at once without a refresh
\* token, else send it to the token endpoint.
RefreshStart(p) ==
    /\ run[p].pc = "refresh"
    /\ IF NoRefreshToken(oauth)
       THEN SetRun(p, [run[p] EXCEPT !.pc = run[p].ret,
                                     !.trace = Log(run[p], "refresh_call", 0, 0)])
       ELSE SetRun(p, [run[p] EXCEPT
                  !.pc = "refresh_recv",
                  !.sentRT = oauth["refresh_token"],
                  !.trace = Log(run[p], "refresh_call", 0, 0)
                            \o <<Ev("token_refresh", 0, oauth["refresh_token"])>>])
    /\ UNCHANGED <<oauth, acct_map, curr_map, query_code, now, world>>

\* The handlers of the submission's try block, lines 271-276.
Caught(st, text) ==
    IF st = NoResponse THEN Outcome("Unexpected", 0) ELSE Rejected(st, text)

\* refresh_access_token() that drops the stored TokenSet when the exchange fails.
RefreshFinishClearing(p) ==
    /\ run[p].pc = "refresh_recv"
    /\ \E st \in TokenStatuses :
         IF st = NoResponse \/ RaisesForStatus(st)
         THEN /\ SetRun(p, [run[p] EXCEPT
                       !.pc = "idle",
                       !.trace = Log(run[p], "token_resp", st, 0),
                       !.outcome = IF run[p].ret = "post2"
                                   THEN Caught(st, ResponseText.token)
                                   ELSE Outcome("Crashed", st)])
              /\ oauth' = EmptyDict
              /\ UNCHANGED <<nextTok, issuedAt>>
         ELSE /\ nextTok <= MaxTokens
              /\ \E resp \in TokenResponses(nextTok) : Stored(resp)
              /\ SetRun(p, [run[p] EXCEPT
                       !.pc = run[p].ret,
                       !.trace = Log(run[p], "token_resp", st, nextTok)])
    /\ UNCHANGED <<acct_map, curr_map, query_code, now, nextCode, exchanged, probe>>

\* refresh_access_token(), lines 59-61: the token endpoint answers.
RefreshFinish(p) ==
    /\ run[p].pc = "refresh_recv"
    /\ \E st \in TokenStatuses :
         IF st = NoResponse \/ RaisesForStatus(st)
         THEN /\ SetRun(p, [run[p] EXCEPT
                       !.pc = "idle",
                       !.trace = Log(run[p], "token_resp", st, 0),
                       !.outcome = IF run[p].ret = "post2"
                                   THEN Caught(st, ResponseText.token)
                                   ELSE Outcome("Crashed", st)])
              /\ UNCHANGED <<oauth, nextTok, issuedAt>>
         ELSE /\ nextTok <= MaxTokens
              /\ \E resp \in TokenResponses(nextTok) : Stored(resp)
              /\ SetRun(p, [run[p] EXCEPT
                       !.pc = run[p].ret,
                       !.trace = Log(run[p], "token_resp", st, nextTok)])
    /\ UNCHANGED <<acct_map, curr_map, query_code, now, nextCode, exchanged, probe>>

\* Lines 173-176: "Konten-Mapping uebernehmen" was pressed.
UpdateAccountMapping(p) ==
    /\ run[p].pc = "ui" /\ run[p].event = "acct"
    /\ \E text \in AcctTexts :
         acct_map' = DictUpdate(acct_map, ParseMapping(text, FALSE).mapping)
    /\ SetRun(p, [run[p] EXCEPT !.pc = "idle", !.outcome = Outcome("Rendered", 0)])
    /\ UNCHANGED <<oauth, curr_map, query_code, now, world>>

\* Lines 190-193: "Waehrungs-Mapping uebernehmen" was pressed.
UpdateCurrencyMapping(p) ==
    /\ run[p].pc = "ui" /\ run[p].event = "curr"
    /\ \E text \in CurrTexts :
         curr_map' = DictUpdate(curr_map, ParseMapping(text, TRUE).mapping)
    /\ SetRun(p, [run[p] EXCEPT !.pc = "idle", !.outcome = Outcome("Rendered", 0)])
    /\ UNCHANGED <<oauth, acct_map, query_code, now, world>>

\* Line 221 with submitted false: the page is drawn and the run ends.
Render(p) ==
    /\ run[p].pc = "ui" /\ run[p].event = "load"
    /\ SetRun(p, [run[p] EXCEPT !.pc = "idle", !.outcome = Outcome("Rendered", 0)])
    /\ UNCHANGED <<oauth, acct_map, curr_map, query_code, now, world>>

\* The ValueError handler, lines 273-274.
Invalid(msg) == [kind |-> "ValueError", status |-> 0, msg |-> msg]

\* Lines 234-247: the request body without a reference number.
Payload(post_date, debit_id, credit_id, currency_id) ==
    [type |-> "manual_single_entry", date |-> post_date,
     debit_account_id |-> debit_id, credit_account_id |-> credit_id,
     currency_id |-> currency_id]

\* A body that carries reference_nr whether or not a number is known.
WithReferenceAlways(payload, ref_nr) ==
    DictUpdate(payload, [k \in {"reference_nr"} |-> ref_nr])

\* Lines 248-249: if ref_nr: payload["reference_nr"] = ref_nr
WithReference(payload, ref_nr) ==
    IF ref_nr # <<>> THEN DictUpdate(payload, [k \in {"reference_nr"} |-> ref_nr])
    ELSE payload

\* Lines 221-229: the form was submitted; date, accounts and currency are
\* resolved in this order, and the first failure ends the submission.
Build(p) ==
    /\ run[p].pc = "ui" /\ run[p].event = "submit"
    /\ \E date_val \in DateInputs, debit_kto \in AccountInputs,
          credit_kto \in AccountInputs, waehrung \in CurrencyInputs,
          use_next_ref \in BOOLEAN, reference_nr \in ReferenceInputs :
         LET post_date == normalize_iso_date(date_val)
             debit     == resolve_account_id(debit_kto, acct_map)
             credit    == resolve_account_id(credit_kto, acct_map)
             currency  == resolve_currency_id(waehrung, curr_map)
             ref_nr    == Strip(reference_nr)
             body      == Payload(post_date.val, debit.val, credit.val, currency.val)
             entered   == [run[p] EXCEPT !.trace = <<>>, !.oauth0 = oauth,
                                         !.amap0 = acct_map, !.cmap0 = curr_map,
                                         !.use_next_ref = use_next_ref,
                                         !.reference_nr = reference_nr]
             failed(e) == SetRun(p, [entered EXCEPT !.pc = "idle", !.outcome = Invalid(e)])
         IN  IF ~post_date.ok THEN failed(post_date.err)
             ELSE IF ~debit.ok THEN failed(debit.err)
             ELSE IF ~credit.ok THEN failed(credit.err)
             ELSE IF ~currency.ok THEN failed(currency.err)
             ELSE IF use_next_ref /\ ref_nr = <<>>
             THEN SetRun(p, [entered EXCEPT !.pc = "refnr", !.payload = body])
             ELSE SetRun(p, [entered EXCEPT !.pc = "post1",
                                           !.payload = WithReference(body, ref_nr)])
    /\ UNCHANGED <<oauth, acct_map, curr_map, query_code, now, world>>

\* Lines 230-232: fetch the next reference number with the stored token.
FetchRef(p) ==
    /\ run[p].pc = "refnr"
    /\ \E st \in RefStatuses :
         LET logged == Log(run[p], "next_ref", st, oauth["access_token"])
         IN  IF st = NoResponse \/ RaisesForStatus(st)
             THEN SetRun(p, [run[p] EXCEPT !.pc = "idle", !.trace = logged,
                                           !.outcome = Caught(st, ResponseText.next_ref)])
             ELSE \E json \in RefBodies :
                    SetRun(p, [run[p] EXCEPT
                        !.pc = "post1", !.trace = logged,
                        !.fetched = TRUE, !.ref_json = json,
                        !.payload = WithReference(@, Get(json, "next_ref_nr", <<>>))])
    /\ UNCHANGED <<oauth, acct_map, curr_map, query_code, now, world>>

\* Lines 263-269 without the 429 branch.
ConcludeWithout429(st, text) ==
    IF RaisesForStatus(st) THEN Rejected(st, text) ELSE Outcome("Succeeded", st)

\* Lines 263-269 with a raise_for_status() that lets every status pass.
ConcludeAccepting(st, text) ==
    IF st = 429 THEN Outcome("RateLimited", st) ELSE Outcome("Succeeded", st)

\* Lines 263-269: the outcome of the create-entry response that is kept.
Conclude(st, text) ==
    IF st = 429 THEN Outcome("RateLimited", st)
    ELSE IF RaisesForStatus(st) THEN Rejected(st, text)
    ELSE Outcome("Succeeded", st)

\* A create-entry POST that calls refresh_access_token() on a 429 as well.
Post1RefreshingOn429(p) ==
    /\ run[p].pc = "post1"
    /\ \E st \in CreateStatuses :
         LET logged == Log(run[p], "post", st, oauth["access_token"])
         IN  IF st = NoResponse
             THEN SetRun(p, [run[p] EXCEPT !.pc = "idle", !.trace = logged,
                                           !.outcome = Caught(st, ResponseText.post1)])
             ELSE IF st \in {401, 429}
             THEN SetRun(p, [run[p] EXCEPT !.pc = "refresh", !.ret = "post2",
                                           !.trace = logged])
             ELSE SetRun(p, [run[p] EXCEPT !.pc = "idle", !.trace = logged,
                                           !.outcome = Conclude(st, ResponseText.post1)])
    /\ UNCHANGED <<oauth, acct_map, curr_map, query_code, now, world>>

\* A create-entry POST whose 401 sends the submission back to its start.
Post1Restarting(p) ==
    /\ run[p].pc = "post1"
    /\ \E st \in CreateStatuses :
         LET logged == Log(run[p], "post", st, oauth["access_token"])
         IN  IF st = NoResponse
             THEN SetRun(p, [run[p] EXCEPT !.pc = "idle", !.trace = logged,
                                           !.outcome = Caught(st, ResponseText.post1)])
             ELSE IF st = 401
             THEN SetRun(p, [run[p] EXCEPT !.pc = "ui", !.trace = logged])
             ELSE SetRun(p, [run[p] EXCEPT !.pc = "idle", !.trace = logged,
                                           !.outcome = Conclude(st, ResponseText.post1)])
    /\ UNCHANGED <<oauth, acct_map, curr_map, query_code, now, world>>

\* Lines 251-257: the create-entry POST; a 401 calls refresh_access_token().
Post1(p) ==
    /\ run[p].pc = "post1"
    /\ \E st \in CreateStatuses :
         LET logged == Log(run[p], "post", st, oauth["access_token"])
         IN  IF st = NoResponse
             THEN SetRun(p, [run[p] EXCEPT !.pc = "idle", !.trace = logged,
                                           !.outcome = Caught(st, ResponseText.post1)])
             ELSE IF st = 401
             THEN SetRun(p, [run[p] EXCEPT !.pc = "refresh", !.ret = "post2",
                                           !.trace = logged])
             ELSE SetRun(p, [run[p] EXCEPT !.pc = "idle", !.trace = logged,
                                           !.outcome = Conclude(st, ResponseText.post1)])
    /\ UNCHANGED <<oauth, acct_map, curr_map, query_code, now, world>>

\* Lines 258-269 as a retry loop: a 401 on the retry refreshes and posts again.
Post2Looping(p) ==
    /\ run[p].pc = "post2"
    /\ \E st \in CreateStatuses :
         LET logged == Log(run[p], "post", st, oauth["access_token"])
         IN  IF st = NoResponse
             THEN SetRun(p, [run[p] EXCEPT !.pc = "idle", !.trace = logged,
                                           !.outcome = Caught(st, ResponseText.post2)])
             ELSE IF st = 401
             THEN SetRun(p, [run[p] EXCEPT !.pc = "refresh", !.ret = "post2",
                                           !.trace = logged])
             ELSE SetRun(p, [run[p] EXCEPT !.pc = "idle", !.trace = logged,
                                           !.outcome = Conclude(st, ResponseText.post2)])
    /\ UNCHANGED <<oauth, acct_map, curr_map, query_code, now, world>>

\* Lines 258-269: the request is issued again with the token now stored.
Post2(p) ==
    /\ run[p].pc = "post2"
    /\ \E st \in CreateStatuses :
         LET logged == Log(run[p], "post", st, oauth["access_token"])
         IN  IF st = NoResponse
             THEN SetRun(p, [run[p] EXCEPT !.pc = "idle", !.trace = logged,
                                           !.outcome = Caught(st, ResponseText.post2)])
             ELSE SetRun(p, [run[p] EXCEPT !.pc = "idle", !.trace = logged,
                                           !.outcome = Conclude(st, ResponseText.post2)])
    /\ UNCHANGED <<oauth, acct_map, curr_map, query_code, now, world>>

Next ==
    \/ Tick
    \/ PageLoad
    \/ \E p \in Procs :
         \/ StartRun(p)
         \/ HandleCallback(p)
         \/ Gate(p)
         \/ Renew(p)
         \/ RefreshStart(p)
         \/ RefreshFinish(p)
         \/ UpdateAccountMapping(p)
         \/ UpdateCurrencyMapping(p)
         \/ Render(p)
         \/ Build(p)
         \/ FetchRef(p)
         \/ Post1(p)
         \/ Post2(p)

\* One script run at a time.
Spec == Init /\ [][Next]_vars

\* The steps of the submission handler, taken by either run.
NextConc ==
    \E p \in Procs :
      \/ Build(p)
      \/ FetchRef(p)
      \/ Post1(p)
      \/ RefreshStart(p)
      \/ RefreshFinish(p)
      \/ Post2(p)

\* Two submissions of the session, interleaved.
SpecConc == InitConc /\ [][NextConc]_vars

\* ----------------------------------------------------------------- claims

Last(t) == t[Len(t)]

\* Positions of the create-entry POSTs in a trace.
PostIdx(t) == {i \in 1..Len(t) : t[i].op = "post"}

\* The run has ended with the outcome it reports.
Finished(r) == r.pc = "idle" /\ r.outcome.kind # "none"

\* The run is a submission that has ended in an error.
FailedSubmission(r) ==
    /\ r.event = "submit"
    /\ r.pc = "idle"
    /\ r.outcome.kind \in {"ValueError", "HTTPError", "RateLimited", "Unexpected"}

\* A 2xx status.
IsSuccess(st) == st >= 200 /\ st < 300

\* C1: a submission issues the create-entry POST at most twice; the second
\* POST follows a first one answered 401 and a call of refresh_access_token()
\* made after it; when the refresh exchange succeeded and the second answer is
\* a success, the submission succeeds with that answer; when the second answer
\* is 401 as well, the submission ends with the HTTP error 401 (Unauthorized).
C1_SingleRetry ==
    \A p \in Procs :
      LET t == run[p].trace
          P == PostIdx(t)
      IN  /\ Cardinality(P) <= 2
          /\ \A i \in P, j \in P :
               i < j => /\ t[i].st = 401
                        /\ \E k \in (i + 1)..(j - 1) : t[k].op = "refresh_call"
                        /\ j = Len(t)
                        /\ Finished(run[p])
                        /\ (t[j].st = 401 => /\ run[p].outcome.kind = "HTTPError"
                                          /\ run[p].outcome.status = 401)
                        /\ ((IsSuccess(t[j].st)
                             /\ \E k \in (i + 1)..(j - 1) :
                                  t[k].op = "token_resp" /\ IsSuccess(t[k].st))
                            => run[p].outcome = Outcome("Succeeded", t[j].st))

\* A submission whose first POST got 401, whose refresh exchange succeeded and
\* whose retry was answered 201.
C1_Witness ==
    \E p \in Procs :
      LET t == run[p].trace
      IN  /\ Len(t) = 5
          /\ t[1].op = "post" /\ t[1].st = 401
          /\ t[4].op = "token_resp" /\ t[4].st = 200
          /\ t[5].op = "post" /\ t[5].st = 201
          /\ t[5].tok # t[1].tok
          /\ run[p].outcome.kind = "Succeeded"

\* C2: a 429 answer to a create-entry POST, first or retried, ends the
\* submission as RateLimited, and nothing is sent after it: no further POST
\* and no token refresh.
C2_RateLimitedStops ==
    \A p \in Procs :
      LET t == run[p].trace
      IN  \A i \in PostIdx(t) :
            t[i].st = 429 => /\ i = Len(t)
                             /\ run[p].pc = "idle"
                             /\ run[p].outcome = Outcome("RateLimited", 429)

\* The retry after a 401 was answered 429.
C2_Witness ==
    \E p \in Procs :
      LET t == run[p].trace
      IN  /\ Cardinality(PostIdx(t)) = 2
          /\ Last(t).op = "post" /\ Last(t).st = 429
          /\ run[p].outcome.kind = "RateLimited"

\* A call of refresh_access_token() at position i of trace t that found no
\* refresh token: no request to the token endpoint follows the call.
CalledWithoutToken(t, i) ==
    /\ t[i].op = "refresh_call"
    /\ ~(i < Len(t) /\ t[i + 1].op = "token_refresh")

\* C3: refresh_access_token() called while no refresh token is held reports
\* an error to its caller: the run ends there with an error outcome and does
\* not go on (in particular it does not repeat the POST with the rejected
\* token).
C3_NoRefreshTokenIsAnError ==
    \A p \in Procs :
      LET t == run[p].trace
      IN  \A i \in 1..Len(t) :
            CalledWithoutToken(t, i)
              => /\ i = Len(t)
                 /\ run[p].pc = "idle"
                 /\ run[p].outcome.kind \in {"HTTPError", "Unexpected", "Crashed"}

\* C4: when the refresh exchange fails (non-success status or timeout) the
\* store is left as it was; when it succeeds the store becomes the response's
\* TokenSet and nothing else: every key of the response with its value, plus
\* expires_at.
C4_RefreshReplacesOrKeeps ==
    [][\A p \in Procs :
         (run[p].pc = "refresh_recv" /\ run'[p].pc # "refresh_recv")
           => LET st == Last(run'[p].trace).st
              IN  IF st = NoResponse \/ RaisesForStatus(st)
                  THEN oauth' = oauth
                  ELSE \E resp \in TokenResponses(nextTok) :
                         /\ DOMAIN oauth' = DOMAIN resp \cup {"expires_at"}
                         /\ \A k \in DOMAIN resp : oauth'[k] = resp[k]]_vars

\* A refresh exchange was answered 400 while a TokenSet with a refresh token
\* is stored.
C4_Witness ==
    \E p \in Procs :
      /\ run[p].trace # <<>>
      /\ Last(run[p].trace).op = "token_resp"
      /\ Last(run[p].trace).st = 400
      /\ ~NoRefreshToken(oauth)

\* The stored TokenSet declares its lifetime.
Declared == oauth # EmptyDict /\ "expires_in" \in DOMAIN oauth

\* C5 as stated: the session is valid iff a TokenSet is held and the clock
\* is strictly before issue time + expires_in - 30.
C5_ValidStrictlyBeforeExpiry ==
    (oauth = EmptyDict \/ Declared)
      => (~need_login(oauth, now)
            <=> (oauth # EmptyDict /\ now < issuedAt + oauth["expires_in"] - Margin))

\* C5 amended: the stored expiry is issue time + expires_in - 30, and the
\* session is valid iff a TokenSet is held and the clock is not after that
\* instant; at the instant itself the session still counts as valid.
C5_ValidUntilExpiry ==
    (oauth = EmptyDict \/ Declared)
      => /\ Declared => oauth["expires_at"] = issuedAt + oauth["expires_in"] - Margin
         /\ ~need_login(oauth, now)
              <=> (oauth # EmptyDict /\ now <= issuedAt + oauth["expires_in"] - Margin)

\* The clock reads exactly the expiry instant of the stored TokenSet, and a
\* run has passed the login gate.
C5_Witness ==
    /\ Declared
    /\ now = issuedAt + oauth["expires_in"] - Margin
    /\ \E p \in Procs : run[p].pc = "renew"

\* C6: when the login gate finds the stored TokenSet expired and a refresh
\* token is held, refresh_access_token() is called before a login is
\* demanded.
C6_RefreshBeforeLogin ==
    \A p \in Procs :
      (/\ run[p].outcome.kind = "LoginRequired"
       /\ oauth # EmptyDict
       /\ ~NoRefreshToken(oauth))
        => \E i \in 1..Len(run[p].trace) : run[p].trace[i].op = "refresh_call"

\* C7: an authorization code is sent to the token endpoint at most once: no
\* run sends a code that was sent before.
C7_CodeSentOnce ==
    [][\A p \in Procs :
         (/\ Len(run'[p].trace) = Len(run[p].trace) + 1
          /\ Last(run'[p].trace).op = "token_code")
           => Last(run'[p].trace).tok \notin exchanged]_vars

\* Refresh tokens sent to the token endpoint by run p, with their positions.
RefreshSends(p) ==
    {<<p, i>> : i \in {k \in 1..Len(run[p].trace) : run[p].trace[k].op = "token_refresh"}}

\* C8: with two interleaved submissions at most one refresh exchange is in
\* flight, and no refresh token value is sent by two exchanges.
C8_RefreshSerialized ==
    /\ Cardinality({p \in Procs : run[p].pc = "refresh_recv"}) <= 1
    /\ \A a \in UNION {RefreshSends(p) : p \in Procs},
          b \in UNION {RefreshSends(p) : p \in Procs} :
         a # b => run[a[1]].trace[a[2]].tok # run[b[1]].trace[b[2]].tok

\* C9: the store is empty, or it holds an access token with the expiry
\* computed for that token: its own issue time plus its own lifetime (the
\* declared one, or the default) minus the margin.
C9_TokenWithItsExpiry ==
    \/ oauth = EmptyDict
    \/ /\ {"access_token", "expires_at"} \subseteq DOMAIN oauth
       /\ oauth["expires_at"]
            = issuedAt + Get(oauth, "expires_in", DefaultLifetime) - Margin

\* A second TokenSet, issued at a later clock reading than the first, is
\* stored.
C9_Witness ==
    /\ oauth # EmptyDict
    /\ oauth["access_token"] = 2
    /\ issuedAt > 0
    /\ "expires_in" \in DOMAIN oauth

\* C10: after a failed submission both mappings are what they were when the
\* form was submitted, and a TokenSet is still held.
C10_FailureKeepsSession ==
    \A p \in Procs :
      FailedSubmission(run[p])
        => /\ acct_map = run[p].amap0
           /\ curr_map = run[p].cmap0
           /\ oauth # EmptyDict

\* A submission failed because the refresh exchange after its 401 failed,
\* with both mappings filled.
C10_Witness ==
    \E p \in Procs :
      /\ FailedSubmission(run[p])
      /\ run[p].trace # <<>>
      /\ Last(run[p].trace).op = "token_resp"
      /\ acct_map # EmptyDict
      /\ curr_map # EmptyDict

\* ------------------------------------------- functions applied on their own

\* Longest text, in lines, that is handed to _parse_mapping.
MaxLines == 2

\* Lines a user may paste into a mapping box: entries with each separator,
\* the same key twice and in both cases, values that are no positive integer,
\* lines with one and with three tokens, a comment and a blank line.
MapLines ==
    { <<"a", "=", "1">>, <<"a", "=", "2">>, <<"A", " ", "3">>,
      <<"b", ":", "-", "5">>, <<"b", ",", "y">>, <<"x">>, <<"a", " ", "b", " ", "c">>,
      <<"#", "c">>, <<" ">> }

\* "\n".join(lines)
RECURSIVE JoinLines(_)
JoinLines(lines) ==
    IF lines = <<>> THEN <<>>
    ELSE IF Len(lines) = 1 THEN lines[1]
    ELSE lines[1] \o <<"\n">> \o JoinLines(Tail(lines))

MapTexts == UNION { { JoinLines(ls) : ls \in [1..n -> MapLines] } : n \in 0..MaxLines }

\* What a user may type into an account or a currency field.
RawInputs ==
    { <<"a">>, <<"A">>, <<" ", "a", " ">>, <<"b">>, <<"7">>, <<" ", "7">>,
      <<"+", "3">>, <<"-", "5">>, <<"0">>, <<"x">>, <<>> }

\* A session whose mapping boxes and id fields are used; nothing else moves.
InitPure ==
    /\ FreshSession({1})
    /\ query_code = 0
    /\ now = 0
    /\ nextTok = 1
    /\ nextCode = 1
    /\ exchanged = {}
    /\ issuedAt = 0
    /\ probe = NoProbe

Session == <<oauth, query_code, now, run, nextTok, nextCode, exchanged, issuedAt>>

\* _parse_mapping(text, upper_keys) on a text
ApplyParse ==
    /\ probe = NoProbe
    /\ \E text \in MapTexts, upper_keys \in BOOLEAN :
         probe' = [fn |-> "parse", text |-> text, upper_keys |-> upper_keys,
                   out |-> ParseMapping(text, upper_keys)]
    /\ UNCHANGED <<acct_map, curr_map, Session>>

\* A button that replaces the account mapping by the parsed text.
ApplyAccountMappingReplacing ==
    /\ probe = NoProbe
    /\ \E text \in MapTexts :
         /\ acct_map' = ParseMapping(text, FALSE).mapping
         /\ probe' = [fn |-> "update", text |-> text, upper_keys |-> FALSE,
                      before |-> acct_map, after |-> acct_map']
    /\ UNCHANGED <<curr_map, Session>>

\* Lines 173-175 on a text: parse, then acct_map.update(new_map)
ApplyAccountMapping ==
    /\ probe = NoProbe
    /\ \E text \in MapTexts :
         /\ acct_map' = DictUpdate(acct_map, ParseMapping(text, FALSE).mapping)
         /\ probe' = [fn |-> "update", text |-> text, upper_keys |-> FALSE,
                      before |-> acct_map, after |-> acct_map']
    /\ UNCHANGED <<curr_map, Session>>

\* Lines 190-192 on a text: parse with upper_keys, then curr_map.update(new_map)
ApplyCurrencyMapping ==
    /\ probe = NoProbe
    /\ \E text \in MapTexts :
         /\ curr_map' = DictUpdate(curr_map, ParseMapping(text, TRUE).mapping)
         /\ probe' = [fn |-> "update", text |-> text, upper_keys |-> TRUE,
                      before |-> curr_map, after |-> curr_map']
    /\ UNCHANGED <<acct_map, Session>>

\* resolve_account_id(user_value) against the session's account mapping
ApplyResolveAccount ==
    /\ probe = NoProbe
    /\ \E user_value \in RawInputs :
         probe' = [fn |-> "account", raw |-> user_value, map |-> acct_map,
                   out |-> resolve_account_id(user_value, acct_map)]
    /\ UNCHANGED <<acct_map, curr_map, Session>>

\* resolve_currency_id(user_value) against the session's currency mapping,
\* for two values that differ in letter case at most
ApplyResolveCurrency ==
    /\ probe = NoProbe
    /\ \E user_value \in RawInputs :
       \E other \in { r \in RawInputs : Upper(r) = Upper(user_value) } :
         probe' = [fn |-> "currency", raw |-> user_value, raw2 |-> other,
                   map |-> curr_map,
                   out |-> resolve_currency_id(user_value, curr_map),
                   out2 |-> resolve_currency_id(other, curr_map)]
    /\ UNCHANGED <<acct_map, curr_map, Session>>

\* The function applied has returned.
Return ==
    /\ probe # NoProbe
    /\ probe' = NoProbe
    /\ UNCHANGED <<acct_map, curr_map, Session>>

\* _parse_mapping on its own, on every text.
NextParse == ApplyParse \/ Return

SpecParse == InitPure /\ [][NextParse]_vars

\* The mapping boxes and the resolvers that read what they stored.
NextPure ==
    \/ ApplyAccountMapping
    \/ ApplyCurrencyMapping
    \/ ApplyResolveAccount
    \/ ApplyResolveCurrency
    \/ Return

SpecPure == InitPure /\ [][NextPure]_vars

\* -------------------------------------------------------------------- C11

\* Lines of a text that are neither blank nor a comment.
Counted(text) ==
    { i \in 1..Len(SplitLines(text)) :
        LET s == Strip(SplitLines(text)[i]) IN s # <<>> /\ ~IsComment(s) }

\* Counted lines that split into exactly two tokens: the accepted ones.
Accepted(text) == { i \in Counted(text) : Len(SplitParts(Strip(SplitLines(text)[i]))) = 2 }

\* The key an accepted line stores its value under.
KeyOf(text, upper_keys, i) ==
    LET k == SplitParts(Strip(SplitLines(text)[i]))[1]
    IN  IF upper_keys THEN Upper(k) ELSE k

DistinctKeys(text, upper_keys) ==
    \A i, j \in Accepted(text) :
        KeyOf(text, upper_keys, i) = KeyOf(text, upper_keys, j) => i = j

\* C11 as stated: the entries of the returned mapping and the rejected lines
\* together number the lines of the text that are neither blank nor comments.
C11_EntriesPlusRejects ==
    probe.fn = "parse"
      => Cardinality(DOMAIN probe.out.mapping) + Len(probe.out.bad)
           = Cardinality(Counted(probe.text))

\* C11 amended: every line that is neither blank nor a comment is either
\* accepted or reported as rejected with its line number and text; the
\* returned mapping holds one entry per distinct accepted key, so its size
\* plus the rejects equals the number of such lines exactly when no key is
\* accepted twice, and is smaller otherwise.
C11_LinesAcceptedOrRejected ==
    probe.fn = "parse"
      => LET text == probe.text
             out == probe.out
             entries == Cardinality(DOMAIN out.mapping)
         IN  /\ Cardinality(Accepted(text)) + Len(out.bad) = Cardinality(Counted(text))
             /\ \A n \in 1..Len(out.bad) :
                  /\ out.bad[n][1] \in Counted(text) \ Accepted(text)
                  /\ out.bad[n][2] = SplitLines(text)[out.bad[n][1]]
             /\ DOMAIN out.mapping
                  = { KeyOf(text, probe.upper_keys, i) : i \in Accepted(text) }
             /\ entries + Len(out.bad) <= Cardinality(Counted(text))
             /\ (entries + Len(out.bad) = Cardinality(Counted(text)))
                  <=> DistinctKeys(text, probe.upper_keys)

\* A text with a rejected line was parsed, and one whose two accepted lines
\* share a key.
C11_Witness ==
    /\ probe.fn = "parse"
    /\ Cardinality(Accepted(probe.text)) = 2
    /\ Cardinality(DOMAIN probe.out.mapping) = 1
    /\ Len(probe.out.bad) = 0

\* -------------------------------------------------------------------- C12

\* int(raw) succeeds: raw, whitespace aside, is a base-10 integer.
IsInteger(raw) == ~IntRaises(raw)

\* C12 as stated: the mapped identifier when the value as typed is a key of
\* the account mapping; otherwise its integer value when that is > 0, the
\* error NonPositive when it is <= 0, and NotAnIdentifier when it is no
\* integer.
C12_VerbatimKeyOrInteger ==
    probe.fn = "account"
      => LET raw == probe.raw
             out == probe.out
         IN  IF raw \in DOMAIN probe.map
             THEN IsInteger(probe.map[raw]) /\ out = Resolved(IntOf(probe.map[raw]))
             ELSE IF IsInteger(raw) /\ IntOf(raw) > 0 THEN out = Resolved(IntOf(raw))
             ELSE IF IsInteger(raw) THEN out = ValueError("Account-ID muss > 0 sein.")
             ELSE out = ValueError("invalid literal")

\* C12 amended: the value is stripped of surrounding whitespace before the
\* lookup, which folds no case; a key found yields the integer value of the
\* mapped text, whatever its sign, and int()'s error when that text is no
\* integer; a value that is no key yields its integer value when > 0,
\* NonPositive when <= 0 and NotAnIdentifier when it is no integer.
C12_StrippedKeyOrInteger ==
    probe.fn = "account"
      => LET s == Strip(probe.raw)
             out == probe.out
         IN  IF s \in DOMAIN probe.map
             THEN IF IsInteger(probe.map[s]) THEN out = Resolved(IntOf(probe.map[s]))
                  ELSE out = ValueError("invalid literal")
             ELSE IF IsInteger(s) /\ IntOf(s) > 0 THEN out = Resolved(IntOf(s))
             ELSE IF IsInteger(s) THEN out = ValueError("Account-ID muss > 0 sein.")
             ELSE out = ValueError("invalid literal")

\* A value typed with surrounding blanks was resolved through the mapping.
C12_Witness ==
    /\ probe.fn = "account"
    /\ probe.raw \notin DOMAIN probe.map
    /\ Strip(probe.raw) \in DOMAIN probe.map
    /\ probe.out.ok

\* -------------------------------------------------------------------- C13

\* A mapped text that is a base-10 integer greater than zero.
PositiveId(v) == IsInteger(v) /\ IntOf(v) > 0

\* The ids a create-entry body carries are positive.
BodyIdsPositive ==
    \A p \in Procs :
       run[p].payload # EmptyDict
         => /\ run[p].payload["debit_account_id"] > 0
            /\ run[p].payload["credit_account_id"] > 0
            /\ run[p].payload["currency_id"] > 0

\* C13: every identifier held in the account and the currency mapping is a
\* positive integer, and so is every debit, credit and currency id of a
\* create-entry body, also when it was looked up in a mapping.
C13_IdentifiersPositive ==
    /\ \A k \in DOMAIN acct_map : PositiveId(acct_map[k])
    /\ \A k \in DOMAIN curr_map : PositiveId(curr_map[k])
    /\ BodyIdsPositive

\* -------------------------------------------------------------------- C14

\* C14: after any sequence of currency mapping updates, resolve_currency_id
\* has the same outcome for two values that differ only in letter case, and
\* a value whose upper-cased form is a key resolves through the mapping;
\* resolve_account_id folds no case: a value that is itself no key is not
\* looked up, whatever keys differ from it in case only.
C14_CurrencyCaseInsensitive ==
    /\ probe.fn = "currency"
         => /\ Upper(probe.raw) = Upper(probe.raw2)
            /\ probe.out = probe.out2
            /\ \A k \in DOMAIN probe.map : k = Upper(k)
            /\ Upper(Strip(probe.raw)) \in DOMAIN probe.map
                 => probe.out = MappedId(probe.map[Upper(Strip(probe.raw))])
    /\ probe.fn = "account"
         => (Strip(probe.raw) \notin DOMAIN probe.map
               => probe.out = RawId(Strip(probe.raw), "Account-ID muss > 0 sein."))

\* A lower-case code and its upper-case form were resolved to the same id
\* through the mapping.
C14_Witness ==
    /\ probe.fn = "currency"
    /\ probe.raw # probe.raw2
    /\ probe.raw # Upper(probe.raw)
    /\ Upper(probe.raw) \in DOMAIN probe.map
    /\ probe.out.ok
    /\ probe.out2 = probe.out

\* -------------------------------------------------------------------- C15

\* The keys a text assigns.
KeysOf(text, upper_keys) == { KeyOf(text, upper_keys, i) : i \in Accepted(text) }

\* The value of the last accepted line of the text that assigns key k.
LastValue(text, upper_keys, k) ==
    LET at == { i \in Accepted(text) : KeyOf(text, upper_keys, i) = k }
        last == CHOOSE i \in at : \A j \in at : j <= i
    IN  SplitParts(Strip(SplitLines(text)[last]))[2]

\* C15: after a mapping update every key of the parsed text maps to its value
\* from that text, the last occurrence winning; every key the text does not
\* assign keeps its previous value; no key is removed.
C15_UpdateAdditive ==
    probe.fn = "update"
      => LET K == KeysOf(probe.text, probe.upper_keys)
         IN  /\ probe.after = IF probe.upper_keys THEN curr_map ELSE acct_map
             /\ DOMAIN probe.after = DOMAIN probe.before \cup K
             /\ \A k \in K :
                  probe.after[k] = LastValue(probe.text, probe.upper_keys, k)
             /\ \A k \in DOMAIN probe.before \ K : probe.after[k] = probe.before[k]

\* An update whose text assigns one key twice changed the value of a key
\* that was held and left another held key alone.
C15_Witness ==
    /\ probe.fn = "update"
    /\ ~DistinctKeys(probe.text, probe.upper_keys)
    /\ \E k \in DOMAIN probe.before \cap KeysOf(probe.text, probe.upper_keys) :
         probe.after[k] # probe.before[k]
    /\ DOMAIN probe.before \ KeysOf(probe.text, probe.upper_keys) # {}

\* -------------------------------------------------------------------- C16

\* The create-entry response at position j of trace t is an error that is
\* neither a 429 nor a 401 to the first attempt.
RejectedAt(t, j) ==
    /\ t[j].op = "post"
    /\ RaisesForStatus(t[j].st)
    /\ t[j].st # 429
    /\ ~(t[j].st = 401 /\ \A i \in PostIdx(t) : j <= i)

\* C16: a create-entry response with an error status other than 429, and
\* other than 401 on the first attempt, ends the submission as RemoteRejected
\* with the status code and the text of that very response; nothing is sent
\* after it.
C16_RemoteRejected ==
    \A p \in Procs :
      LET t == run[p].trace
      IN  \A j \in 1..Len(t) :
            RejectedAt(t, j)
              => /\ j = Len(t)
                 /\ run[p].pc = "idle"
                 /\ run[p].outcome
                      = Rejected(t[j].st,
                                 IF \A i \in PostIdx(t) : j <= i
                                 THEN ResponseText.post1 ELSE ResponseText.post2)

\* The retry after a 401 was answered 401 again and reported with the text
\* of the second response.
C16_Witness ==
    \E p \in Procs :
      LET t == run[p].trace
      IN  /\ Cardinality(PostIdx(t)) = 2
          /\ Last(t).op = "post" /\ Last(t).st = 401
          /\ run[p].outcome = Rejected(401, ResponseText.post2)

\* -------------------------------------------------------------------- C17

\* The phase of a run: 0 before the submission handler is reached (callback,
\* gate, the gate's refresh), 1 Building and Resolving (lines 221-226, one
\* step), 2 Authorizing (the reference-number fetch, the refresh after a 401),
\* 3 Sending (a create-entry POST is due), 4 Succeeded or Failed.
Phase(r) ==
    IF r.event # "submit" THEN 0
    ELSE IF r.pc = "ui" THEN 1
    ELSE IF r.pc = "refnr" THEN 2
    ELSE IF r.pc \in {"refresh", "refresh_recv"} /\ r.ret = "post2" THEN 2
    ELSE IF r.pc \in {"post1", "post2"} THEN 3
    ELSE IF r.pc = "idle" /\ r.outcome.kind
              \in {"ValueError", "HTTPError", "RateLimited", "Unexpected", "Succeeded"}
    THEN 4
    ELSE 0

\* Resolution comes before any request: a submission that has sent a request
\* has resolved its date and ids, and one that failed to resolve has sent none.
ResolvedBeforeRequests ==
    \A p \in Procs :
       Phase(run[p]) >= 2
         => /\ run[p].outcome.kind = "ValueError" => run[p].trace = <<>>
            /\ run[p].trace # <<>>
                 => /\ run[p].payload # EmptyDict
                    /\ run[p].outcome.kind # "ValueError"

\* C17 as stated: a submission moves only forward through Building,
\* Resolving, Authorizing and Sending to Succeeded or Failed, never back to an
\* earlier phase, and resolution completes before any request is sent.
C17_OnlyForward ==
    [][ /\ \A p \in Procs :
             Phase(run[p]) \in 1..3 => Phase(run'[p]) >= Phase(run[p])
        /\ ResolvedBeforeRequests' ]_vars

\* C17 amended: resolution completes before any request is sent, and a
\* submission never returns to Building or Resolving; it moves forward except
\* for the one recovery from a 401 to its first create-entry POST, which
\* takes it from Sending back to Authorizing (the refresh) and on to Sending
\* again.
C17_ForwardButRecovery ==
    [][ /\ \A p \in Procs :
             Phase(run[p]) \in 1..3
               => \/ Phase(run'[p]) >= Phase(run[p])
                  \/ /\ run[p].pc = "post1"
                     /\ run'[p].pc = "refresh" /\ run'[p].ret = "post2"
                     /\ Last(run'[p].trace).op = "post"
                     /\ Last(run'[p].trace).st = 401
        /\ ResolvedBeforeRequests' ]_vars

\* A submission that went from Sending to the refresh and is about to send
\* again.
C17_Witness ==
    \E p \in Procs :
       /\ run[p].pc = "post2"
       /\ Cardinality(PostIdx(run[p].trace)) = 1
       /\ run[p].trace[1].op \in {"next_ref", "post"}

\* -------------------------------------------------------------------- C18

\* The submission of run r has resolved its date and ids (lines 223-226).
PastResolution(r) == Phase(r) >= 2 /\ r.payload # EmptyDict

\* The reference-number endpoint was requested in trace t.
RefCalled(t) == \E i \in 1..Len(t) : t[i].op = "next_ref"

\* The reference number run r knows: the explicit one, else the fetched one,
\* else none (the empty string).
KnownReference(r) ==
    IF Strip(r.reference_nr) # <<>> THEN Strip(r.reference_nr)
    ELSE IF r.fetched THEN Get(r.ref_json, "next_ref_nr", <<>>)
    ELSE <<>>

\* C18: for a submission past resolution, the reference-number endpoint is
\* called iff auto-reference is requested and the explicit reference is
\* blank; after an answer with a missing or empty next_ref_nr the submission
\* goes on to the create-entry call; the body contains reference_nr iff a
\* non-empty reference number is known, and then it is that number.
C18_ReferenceNumber ==
    \A p \in Procs :
       LET r == run[p]
           wanted == r.use_next_ref /\ Strip(r.reference_nr) = <<>>
       IN  PastResolution(r)
             => /\ IF r.pc = "refnr" THEN wanted /\ ~RefCalled(r.trace)
                   ELSE RefCalled(r.trace) <=> wanted
                /\ r.fetched => r.pc = "post1" \/ PostIdx(r.trace) # {}
                /\ "reference_nr" \in DOMAIN r.payload <=> KnownReference(r) # <<>>
                /\ KnownReference(r) # <<>>
                     => r.payload["reference_nr"] = KnownReference(r)

\* The endpoint answered without a next_ref_nr, or with an empty one, and the
\* create-entry call was sent with a body that has no reference_nr.
C18_Witness ==
    \E p \in Procs :
       /\ run[p].fetched
       /\ Get(run[p].ref_json, "next_ref_nr", <<>>) = <<>>
       /\ PostIdx(run[p].trace) # {}
       /\ "reference_nr" \notin DOMAIN run[p].payload

\* -------------------------------------------------------------------- C19

\* The first create-entry POST of trace t was answered 401.
FirstPost401(t) ==
    \E i \in PostIdx(t) : t[i].st = 401 /\ \A j \in PostIdx(t) : i <= j

\* C19: a submission changes the stored TokenSet only through the refresh
\* that follows a 401 to its first create-entry POST: while that POST has not
\* been answered 401 (it was not sent, or was answered otherwise) the store
\* is as it was when the form was submitted, and a store that differs is the
\* result of a token response received after that 401.
C19_StoreChangedOnlyByRecovery ==
    \A p \in Procs :
       LET r == run[p]
       IN  Phase(r) >= 1 /\ r.oauth0 # EmptyDict
             => /\ ~FirstPost401(r.trace) => oauth = r.oauth0
                /\ oauth # r.oauth0
                     => \E i \in PostIdx(r.trace), k \in 1..Len(r.trace) :
                          /\ r.trace[i].st = 401
                          /\ i < k
                          /\ r.trace[k].op = "token_resp"
                          /\ IsSuccess(r.trace[k].st)

\* A submission whose first create-entry POST was answered 429 has ended, and
\* the store holds the TokenSet it held at submission.
C19_Witness ==
    \E p \in Procs :
       /\ Phase(run[p]) = 4
       /\ Cardinality(PostIdx(run[p].trace)) = 1
       /\ Last(run[p].trace).st = 429
       /\ oauth = run[p].oauth0
       /\ oauth # EmptyDict

\* -------------------------------------------------------------------- C20

\* Run p receives a success answer to its refresh-token exchange in this step.
RefreshSucceeds(p) ==
    /\ run[p].pc = "refresh_recv"
    /\ run'[p].trace # <<>>
    /\ Last(run'[p].trace).op = "token_resp"
    /\ IsSuccess(Last(run'[p].trace).st)

\* C20: a successful refresh-token exchange leaves the session able to
\* refresh again: a refresh token held before it is followed by a refresh
\* token held after it, also when the response has no refresh_token field.
C20_RefreshTokenSurvives ==
    [][ \A p \in Procs :
          RefreshSucceeds(p) /\ ~NoRefreshToken(oauth) => ~NoRefreshToken(oauth') ]_vars

====
